---- MODULE Spec2Model ----
(***************************************************************************)
(* Model of package net's internet protocol family socket helpers          *)
(* (src/net/ipsock.go): the tagged address list, filterAndTagAddrs,        *)
(* SplitHostPort / JoinHostPort and resolveInternetAddrs.                  *)
(*                                                                         *)
(* Strings are sequences of one-character strings.  Index arithmetic keeps *)
(* Go's 0-based offsets; only the sequence accesses add one.               *)
(***************************************************************************)
EXTENDS Integers, Sequences, FiniteSets, TLC

(***************************************************************************)
(* The shapes of the Go values.  An IP is its byte length, whether         *)
(* IP.To4() yields a non-nil result, and the text of the address it stands *)
(* for.  An error is its message; nil is the nil error, the nil filter and *)
(* the nil pointer.                                                        *)
(***************************************************************************)
nil == "nil"

IPType == [len : {0, 4, 16}, to4 : BOOLEAN, text : STRING]

AddrType == [type : STRING, IP : IPType, Port : Int, Zone : STRING]
              \cup [type : STRING, IP : IPType, Zone : STRING]

addrWithTagsType == [Addr : AddrType, single : BOOLEAN, fallback : BOOLEAN]

addrListType == Seq(addrWithTagsType)

\* The locals of filterAndTagAddrs.
tagLocalsType ==
  [addrs : addrListType, v4Addrs : Seq(Nat), v6Addrs : Seq(Nat), fallbacks : STRING]

\* The variables the inetaddr closure of resolveInternetAddrs captures.
inetaddrType == [net : STRING, portnum : Int]

\* A call resolveInternetAddrs made and the error (or nil) it answered.
callType ==
  [fn : STRING, res : STRING]
    \cup [fn : STRING, res : STRING, filter : STRING,
          ips : Seq([IP : IPType, Zone : STRING])]

\* The results of SplitHostPort.
splitType == [host : Seq(STRING), port : Seq(STRING), err : STRING]

\* The results of resolveInternetAddrs and filterAndTagAddrs.
resultType == [addrs : addrListType, err : STRING]

VARIABLES supportsIPv4, supportsIPv6, op, args, ret, pc, host, portnum, calls

vars == <<supportsIPv4, supportsIPv6, op, args, ret, pc, host, portnum, calls>>

(***************************************************************************)
(* Bounds of the explored inputs.                                          *)
(***************************************************************************)
MaxLen == 6        \* longest address handed to SplitHostPort directly
MaxHost == 3       \* longest host handed to JoinHostPort
MaxPort == 2       \* longest port handed to JoinHostPort
MaxIPs == 4        \* longest record list handed to filterAndTagAddrs directly
MaxAddr == 2       \* longest address handed to resolveInternetAddrs
MaxLookupIPs == 2  \* longest record list returned by the lookup

Alphabet == {"[", "]", ":", "%", "a"}

Strs(A, n) == UNION {[1..k -> A] : k \in 0..n}

(***************************************************************************)
(* Go values.                                                              *)
(***************************************************************************)
IPv6len == 16

IPv4loopback == [len |-> 16, to4 |-> TRUE, text |-> "127.0.0.1"]
IPv4short == [len |-> 4, to4 |-> TRUE, text |-> "192.168.0.1"]
IPv6loopback == [len |-> 16, to4 |-> FALSE, text |-> "::1"]
IPv6linklocal == [len |-> 16, to4 |-> FALSE, text |-> "fe80::1"]
IPnil == [len |-> 0, to4 |-> FALSE, text |-> ""]

IPAddr(ip, zone) == [IP |-> ip, Zone |-> zone]

IPAddrs ==
  { IPAddr(IPv4loopback, ""), IPAddr(IPv4short, ""), IPAddr(IPv6loopback, ""),
    IPAddr(IPv6linklocal, "eth0"), IPAddr(IPnil, "") }

Filters == {nil, "ipv4only", "ipv6only"}

Networks == {"tcp", "tcp4", "udp6", "ip", "ip4", "unix", ""}

\* Go slices: s[a:b] and s[a:].
Slice(s, a, b) == SubSeq(s, a + 1, b)

SliceFrom(s, a) == SubSeq(s, a + 1, Len(s))

\* Index of the last / first occurrence of b in s, or -1.
last(s, b) ==
  LET hits == {x \in 0..(Len(s) - 1) : s[x + 1] = b}
  IN IF hits = {} THEN -1 ELSE CHOOSE x \in hits : \A y \in hits : y <= x

byteIndex(s, b) ==
  LET hits == {x \in 0..(Len(s) - 1) : s[x + 1] = b}
  IN IF hits = {} THEN -1 ELSE CHOOSE x \in hits : \A y \in hits : x <= y

(***************************************************************************)
(* Tagged address lists.                                                   *)
(***************************************************************************)
addrWithTags(addr, single, fallback) ==
  [Addr |-> addr, single |-> single, fallback |-> fallback]

makeAddrList(addr) == <<addrWithTags(addr, TRUE, FALSE)>>

\* getSingle panics unless exactly one element carries the single tag.
getSingleCount(addrs) == Cardinality({x \in 1..Len(addrs) : addrs[x].single})

getSinglePanics(addrs) == getSingleCount(addrs) # 1

getSingle(addrs) == addrs[CHOOSE x \in 1..Len(addrs) : addrs[x].single].Addr

getAll(addrs) == [x \in 1..Len(addrs) |-> addrs[x].Addr]

getPrimaries(addrs) == getAll(SelectSeq(addrs, LAMBDA a : ~a.fallback))

getFallbacks(addrs) == getAll(SelectSeq(addrs, LAMBDA a : a.fallback))

(***************************************************************************)
(* filterAndTagAddrs.                                                      *)
(***************************************************************************)
errNoSuitableAddress == "no suitable address found"

ipv4only(addr) == supportsIPv4 /\ addr.IP.to4

ipv6only(addr) == supportsIPv6 /\ addr.IP.len = IPv6len /\ ~addr.IP.to4

\* A filter argument is nil or one of the two predicates above.
applyFilter(filter, ip) ==
  CASE filter = "ipv4only" -> ipv4only(ip)
    [] filter = "ipv6only" -> ipv6only(ip)

\* The endpoint constructor closure of resolveInternetAddrs; f holds the
\* captured net and portnum.
inetaddr(f, ip) ==
  CASE f.net \in {"tcp", "tcp4", "tcp6"} ->
         [type |-> "TCPAddr", IP |-> ip.IP, Port |-> f.portnum, Zone |-> ip.Zone]
    [] f.net \in {"udp", "udp4", "udp6"} ->
         [type |-> "UDPAddr", IP |-> ip.IP, Port |-> f.portnum, Zone |-> ip.Zone]
    [] f.net \in {"ip", "ip4", "ip6"} ->
         [type |-> "IPAddr", IP |-> ip.IP, Zone |-> ip.Zone]
    [] OTHER -> "panic"

\* The constructor the tests pass: a TCPAddr with port 5682.
testInetaddr == [net |-> "tcp", portnum |-> 5682]

\* The locals of filterAndTagAddrs before the loop.  fallbacks is a pointer
\* to one of the two index slices, named here by the slice it points to.
tagLocals == [addrs |-> <<>>, v4Addrs |-> <<>>, v6Addrs |-> <<>>, fallbacks |-> nil]

\* tagLoopBody with the fallback family set by every record, so that the
\* family seen last decides it.
tagLoopBody_lastFamily(filter, st, ip, f) ==
  IF filter # nil /\ ~applyFilter(filter, ip) THEN st
  ELSE IF ipv4only(ip) THEN
    [addrs |-> Append(st.addrs, addrWithTags(inetaddr(f, ip), FALSE, FALSE)),
     v4Addrs |-> Append(st.v4Addrs, Len(st.addrs)),
     v6Addrs |-> st.v6Addrs,
     fallbacks |-> "v6Addrs"]
  ELSE IF ipv6only(ip) THEN
    [addrs |-> Append(st.addrs, addrWithTags(inetaddr(f, ip), FALSE, FALSE)),
     v4Addrs |-> st.v4Addrs,
     v6Addrs |-> Append(st.v6Addrs, Len(st.addrs)),
     fallbacks |-> "v4Addrs"]
  ELSE st

\* tagLoopBody with each record put in front of the list instead of behind.
tagLoopBody_prepend(filter, st, ip, f) ==
  IF filter # nil /\ ~applyFilter(filter, ip) THEN st
  ELSE IF ipv4only(ip) THEN
    [addrs |-> <<addrWithTags(inetaddr(f, ip), FALSE, FALSE)>> \o st.addrs,
     v4Addrs |-> Append(st.v4Addrs, Len(st.addrs)),
     v6Addrs |-> st.v6Addrs,
     fallbacks |-> IF st.fallbacks = nil THEN "v6Addrs" ELSE st.fallbacks]
  ELSE IF ipv6only(ip) THEN
    [addrs |-> <<addrWithTags(inetaddr(f, ip), FALSE, FALSE)>> \o st.addrs,
     v4Addrs |-> st.v4Addrs,
     v6Addrs |-> Append(st.v6Addrs, Len(st.addrs)),
     fallbacks |-> IF st.fallbacks = nil THEN "v4Addrs" ELSE st.fallbacks]
  ELSE st

\* One iteration of the loop over ips.
tagLoopBody(filter, st, ip, f) ==
  IF filter # nil /\ ~applyFilter(filter, ip) THEN st
  ELSE IF ipv4only(ip) THEN
    [addrs |-> Append(st.addrs, addrWithTags(inetaddr(f, ip), FALSE, FALSE)),
     v4Addrs |-> Append(st.v4Addrs, Len(st.addrs)),
     v6Addrs |-> st.v6Addrs,
     fallbacks |-> IF st.fallbacks = nil THEN "v6Addrs" ELSE st.fallbacks]
  ELSE IF ipv6only(ip) THEN
    [addrs |-> Append(st.addrs, addrWithTags(inetaddr(f, ip), FALSE, FALSE)),
     v4Addrs |-> st.v4Addrs,
     v6Addrs |-> Append(st.v6Addrs, Len(st.addrs)),
     fallbacks |-> IF st.fallbacks = nil THEN "v4Addrs" ELSE st.fallbacks]
  ELSE st

RECURSIVE tagLoop(_, _, _, _)
tagLoop(filter, st, ips, f) ==
  IF ips = <<>> THEN st
  ELSE tagLoop(filter, tagLoopBody(filter, st, Head(ips), f), Tail(ips), f)

\* tagSingle with two independent ifs in place of the if / else-if chain.
tagSingle_bothFamilies(st) ==
  (IF Len(st.v4Addrs) > 0 THEN {st.v4Addrs[1]} ELSE {})
    \cup (IF Len(st.v6Addrs) > 0 THEN {st.v6Addrs[1]} ELSE {})

\* tagSingle with the two families looked at in the other order.
tagSingle_preferV6(st) ==
  IF Len(st.v6Addrs) > 0 THEN {st.v6Addrs[1]}
  ELSE IF Len(st.v4Addrs) > 0 THEN {st.v4Addrs[1]}
  ELSE {}

\* tagSingle without the else-if branch.
tagSingle_v4Only(st) ==
  IF Len(st.v4Addrs) > 0 THEN {st.v4Addrs[1]} ELSE {}

\* The positions (0-based) the function tags single; none when it has to
\* return errNoSuitableAddress instead.
tagSingle(st) ==
  IF Len(st.v4Addrs) > 0 THEN {st.v4Addrs[1]}
  ELSE IF Len(st.v6Addrs) > 0 THEN {st.v6Addrs[1]}
  ELSE {}

\* The positions the last loop tags as fallbacks.  It is reached only with
\* a non-nil fallbacks pointer.
tagFallbacks(st) ==
  LET slice == CASE st.fallbacks = "v4Addrs" -> st.v4Addrs
                 [] st.fallbacks = "v6Addrs" -> st.v6Addrs
  IN {slice[x] : x \in 1..Len(slice)}

filterAndTagAddrs(filter, ips, f) ==
  LET st == tagLoop(filter, tagLocals, ips, f)
  IN IF tagSingle(st) = {} THEN [addrs |-> <<>>, err |-> errNoSuitableAddress]
     ELSE [addrs |-> [x \in 1..Len(st.addrs) |->
                        addrWithTags(st.addrs[x].Addr, (x - 1) \in tagSingle(st),
                                     (x - 1) \in tagFallbacks(st))],
           err |-> nil]

(***************************************************************************)
(* SplitHostPort and JoinHostPort.                                         *)
(***************************************************************************)
missingPort == "missing port in address"

tooManyColons == "too many colons in address"

missingBrackets == "missing brackets in address"

missingRBracket == "missing ']' in address"

unexpectedLBracket == "unexpected '[' in address"

unexpectedRBracket == "unexpected ']' in address"

\* The named results (host, port, err) at a return statement.
splitReturn(h, p, e) == [host |-> h, port |-> p, err |-> e]

\* From the stray-bracket checks to the normal return.
splitTail(hostport, h, i, j, k) ==
  IF byteIndex(SliceFrom(hostport, j), "[") >= 0
  THEN splitReturn(h, <<>>, unexpectedLBracket)
  ELSE IF byteIndex(SliceFrom(hostport, k), "]") >= 0
  THEN splitReturn(h, <<>>, unexpectedRBracket)
  ELSE splitReturn(h, SliceFrom(hostport, i + 1), nil)

\* splitBracketed with a missing ']' sent to the missingPort label.
splitBracketed_noRBracketCase(hostport, i) ==
  LET end == byteIndex(hostport, "]")
  IN IF end < 0 THEN splitReturn(<<>>, <<>>, missingPort)
     ELSE IF end + 1 = Len(hostport) THEN splitReturn(<<>>, <<>>, missingPort)
     ELSE IF end + 1 = i
     THEN splitTail(hostport, Slice(hostport, 1, end), i, 1, end + 1)
     ELSE IF hostport[end + 2] = ":" THEN splitReturn(<<>>, <<>>, tooManyColons)
     ELSE splitReturn(<<>>, <<>>, missingPort)

\* The branch taken when hostport[0] == '['.
splitBracketed(hostport, i) ==
  LET end == byteIndex(hostport, "]")
  IN IF end < 0 THEN splitReturn(<<>>, <<>>, missingRBracket)
     ELSE IF end + 1 = Len(hostport) THEN splitReturn(<<>>, <<>>, missingPort)
     ELSE IF end + 1 = i
     THEN splitTail(hostport, Slice(hostport, 1, end), i, 1, end + 1)
     ELSE IF hostport[end + 2] = ":" THEN splitReturn(<<>>, <<>>, tooManyColons)
     ELSE splitReturn(<<>>, <<>>, missingPort)

\* splitPlain without the check for a '%' in the host.
splitPlain_noZoneCheck(hostport, i) ==
  LET h == Slice(hostport, 0, i)
  IN IF byteIndex(h, ":") >= 0 THEN splitReturn(h, <<>>, tooManyColons)
     ELSE splitTail(hostport, h, i, 0, 0)

\* The branch taken otherwise.
splitPlain(hostport, i) ==
  LET h == Slice(hostport, 0, i)
  IN IF byteIndex(h, ":") >= 0 THEN splitReturn(h, <<>>, tooManyColons)
     ELSE IF byteIndex(h, "%") >= 0 THEN splitReturn(h, <<>>, missingBrackets)
     ELSE splitTail(hostport, h, i, 0, 0)

SplitHostPort(hostport) ==
  LET i == last(hostport, ":")
  IN IF i < 0 THEN splitReturn(<<>>, <<>>, missingPort)
     ELSE IF hostport[1] = "[" THEN splitBracketed(hostport, i)
     ELSE splitPlain(hostport, i)

\* JoinHostPort that brackets a host for its colons only.
JoinHostPort_colonOnly(h, p) ==
  IF byteIndex(h, ":") >= 0
  THEN <<"[">> \o h \o <<"]", ":">> \o p
  ELSE h \o <<":">> \o p

JoinHostPort(h, p) ==
  IF byteIndex(h, ":") >= 0 \/ byteIndex(h, "%") >= 0
  THEN <<"[">> \o h \o <<"]", ":">> \o p
  ELSE h \o <<":">> \o p

(***************************************************************************)
(* The callers.  A state holds the operation performed last (op), its      *)
(* arguments (args) and what it returned (ret).  resolveInternetAddrs runs *)
(* in steps (pc) around its calls into the rest of the package; calls is   *)
(* the list of calls the current run has made, with their outcomes.        *)
(***************************************************************************)
noResult == <<>>

Idle == pc = "idle" /\ op = "init"

Init ==
  /\ supportsIPv4 \in BOOLEAN
  /\ supportsIPv6 \in BOOLEAN
  /\ op = "init"
  /\ args = <<>>
  /\ ret = noResult
  /\ pc = "idle"
  /\ host = <<>>
  /\ portnum = 0
  /\ calls = <<>>

\* The return of a function that returns at once.
Returns(name, a, r) ==
  /\ op' = name
  /\ args' = a
  /\ ret' = r
  /\ pc' = "idle"
  /\ host' = <<>>
  /\ portnum' = 0
  /\ calls' = <<>>
  /\ UNCHANGED <<supportsIPv4, supportsIPv6>>

CallSplitHostPort ==
  /\ Idle
  /\ \E hostport \in Strs(Alphabet, MaxLen) :
       Returns("SplitHostPort", [hostport |-> hostport], SplitHostPort(hostport))

\* A caller that joins a host and a port and splits the result again.
CallJoinSplit ==
  /\ Idle
  /\ \E h \in Strs(Alphabet, MaxHost), p \in Strs(Alphabet, MaxPort) :
       Returns("JoinHostPort", [host |-> h, port |-> p],
               [joined |-> JoinHostPort(h, p),
                split |-> SplitHostPort(JoinHostPort(h, p))])

CallFilterAndTagAddrs ==
  /\ Idle
  /\ \E filter \in Filters, ips \in Strs(IPAddrs, MaxIPs) :
       Returns("filterAndTagAddrs", [filter |-> filter, ips |-> ips],
               filterAndTagAddrs(filter, ips, testInetaddr))

CallMakeAddrList ==
  /\ Idle
  /\ \E ip \in IPAddrs :
       Returns("makeAddrList", [addr |-> inetaddr(testInetaddr, ip)],
               [addrs |-> makeAddrList(inetaddr(testInetaddr, ip)), err |-> nil])

(***************************************************************************)
(* resolveInternetAddrs.                                                   *)
(***************************************************************************)
\* What the parts of the package outside this file may answer.
parsePortResults ==
  { [portnum |-> 80, err |-> nil], [portnum |-> 0, err |-> nil],
    [portnum |-> 0, err |-> "unknown port"] }

parseIPResults ==
  { [v4 |-> IPv4loopback, v6 |-> IPnil, v6zone |-> ""],
    [v4 |-> IPnil, v6 |-> IPv6loopback, v6zone |-> ""],
    [v4 |-> IPnil, v6 |-> IPv6linklocal, v6zone |-> "eth0"],
    [v4 |-> IPnil, v6 |-> IPnil, v6zone |-> ""] }

lookupResults ==
  {[ips |-> l, err |-> nil] : l \in Strs(IPAddrs, MaxLookupIPs)}
    \cup {[ips |-> <<>>, err |-> "i/o timeout"]}

lastByte(net) ==
  CASE net \in {"tcp4", "udp4", "ip4"} -> "4"
    [] net \in {"tcp6", "udp6", "ip6"} -> "6"
    [] net \in {"tcp", "udp"} -> "p"
    [] net = "ip" -> "p"
    [] OTHER -> "x"

Called(fn, res) == [fn |-> fn, res |-> res]

\* return from resolveInternetAddrs.
resolveReturn(addrs, err) ==
  /\ ret' = [addrs |-> addrs, err |-> err]
  /\ pc' = "done"

resolveEnter ==
  /\ Idle
  /\ \E net \in Networks, addr \in Strs(Alphabet, MaxAddr) :
       /\ op' = "resolveInternetAddrs"
       /\ args' = [net |-> net, addr |-> addr]
  /\ ret' = noResult
  /\ pc' = "switch"
  /\ host' = <<>>
  /\ portnum' = 0
  /\ calls' = <<>>
  /\ UNCHANGED <<supportsIPv4, supportsIPv6>>

\* switch net { ... }
resolveSwitch ==
  /\ pc = "switch"
  /\ UNCHANGED <<supportsIPv4, supportsIPv6, op, args>>
  /\ CASE args.net \in {"tcp", "tcp4", "tcp6", "udp", "udp4", "udp6"} ->
            IF args.addr # <<>>
            THEN LET r == SplitHostPort(args.addr)
                 IN IF r.err # nil
                    THEN /\ resolveReturn(<<>>, r.err)
                         /\ calls' = Append(calls, Called("SplitHostPort", r.err))
                         /\ host' = r.host
                         /\ UNCHANGED portnum
                    ELSE \E pp \in parsePortResults :
                           /\ calls' = calls \o <<Called("SplitHostPort", nil),
                                                  Called("parsePort", pp.err)>>
                           /\ host' = r.host
                           /\ portnum' = pp.portnum
                           /\ IF pp.err # nil
                              THEN resolveReturn(<<>>, pp.err)
                              ELSE pc' = "literal" /\ UNCHANGED ret
            ELSE pc' = "literal" /\ UNCHANGED <<ret, host, portnum, calls>>
       [] args.net \in {"ip", "ip4", "ip6"} ->
            /\ host' = args.addr
            /\ pc' = "literal"
            /\ UNCHANGED <<ret, portnum, calls>>
       [] OTHER ->
            /\ resolveReturn(<<>>, "unknown network")
            /\ UNCHANGED <<host, portnum, calls>>

\* The wildcard and the literal addresses.
resolveLiteral ==
  /\ pc = "literal"
  /\ UNCHANGED <<supportsIPv4, supportsIPv6, op, args, host, portnum>>
  /\ LET f == [net |-> args.net, portnum |-> portnum]
     IN IF host = <<>>
        THEN /\ resolveReturn(makeAddrList(inetaddr(f, IPAddr(IPnil, ""))), nil)
             /\ UNCHANGED calls
        ELSE \E lit \in parseIPResults :
               IF lit.v4 # IPnil
               THEN /\ resolveReturn(makeAddrList(inetaddr(f, IPAddr(lit.v4, ""))), nil)
                    /\ calls' = Append(calls, Called("parseIPv4", "ip"))
               ELSE IF lit.v6 # IPnil
               THEN /\ resolveReturn(
                         makeAddrList(inetaddr(f, IPAddr(lit.v6, lit.v6zone))), nil)
                    /\ calls' = calls \o <<Called("parseIPv4", nil),
                                           Called("parseIPv6", "ip")>>
               ELSE /\ pc' = "lookup"
                    /\ calls' = calls \o <<Called("parseIPv4", nil),
                                           Called("parseIPv6", nil)>>
                    /\ UNCHANGED ret

\* resolveLookup with a second lookup after a failed one.
resolveLookup_retry ==
  /\ pc = "lookup"
  /\ UNCHANGED <<supportsIPv4, supportsIPv6, op, args, host, portnum>>
  /\ \E l1 \in lookupResults, l2 \in lookupResults :
       LET l == IF l1.err # nil THEN l2 ELSE l1
           made == IF l1.err # nil
                   THEN <<Called("lookupIPDeadline", l1.err),
                          Called("lookupIPDeadline", l2.err)>>
                   ELSE <<Called("lookupIPDeadline", l1.err)>>
       IN IF l.err # nil
          THEN /\ resolveReturn(<<>>, l.err)
               /\ calls' = calls \o made
          ELSE LET filter == IF args.net # "" /\ lastByte(args.net) = "6"
                             THEN "ipv6only"
                             ELSE IF args.net # "" /\ lastByte(args.net) = "4"
                             THEN "ipv4only" ELSE nil
                   r == filterAndTagAddrs(filter, l.ips,
                                          [net |-> args.net, portnum |-> portnum])
               IN /\ resolveReturn(r.addrs, r.err)
                  /\ calls' = calls \o made \o
                                <<[fn |-> "filterAndTagAddrs", res |-> r.err,
                                   filter |-> filter, ips |-> l.ips]>>

\* The DNS name: the lookup, then the filter chosen by the network name.
resolveLookup ==
  /\ pc = "lookup"
  /\ UNCHANGED <<supportsIPv4, supportsIPv6, op, args, host, portnum>>
  /\ \E l \in lookupResults :
       IF l.err # nil
       THEN /\ resolveReturn(<<>>, l.err)
            /\ calls' = Append(calls, Called("lookupIPDeadline", l.err))
       ELSE LET filter == IF args.net # "" /\ lastByte(args.net) = "6" THEN "ipv6only"
                          ELSE IF args.net # "" /\ lastByte(args.net) = "4"
                          THEN "ipv4only" ELSE nil
                r == filterAndTagAddrs(filter, l.ips,
                                       [net |-> args.net, portnum |-> portnum])
            IN /\ resolveReturn(r.addrs, r.err)
               /\ calls' = calls \o <<Called("lookupIPDeadline", nil),
                                      [fn |-> "filterAndTagAddrs", res |-> r.err,
                                       filter |-> filter, ips |-> l.ips]>>

Next ==
  \/ CallSplitHostPort
  \/ CallJoinSplit
  \/ CallFilterAndTagAddrs
  \/ CallMakeAddrList
  \/ resolveEnter
  \/ resolveSwitch
  \/ resolveLiteral
  \/ resolveLookup

Spec == Init /\ [][Next]_vars

(***************************************************************************)
(* Properties.                                                             *)
(***************************************************************************)
TypeOK ==
  /\ supportsIPv4 \in BOOLEAN
  /\ supportsIPv6 \in BOOLEAN
  /\ pc \in {"idle", "switch", "literal", "lookup", "done"}
  /\ host \in Seq(Alphabet)
  /\ portnum \in Int
  /\ \A x \in 1..Len(calls) : calls[x] \in callType
  /\ op = "SplitHostPort" => ret \in splitType
  /\ op \in {"filterAndTagAddrs", "makeAddrList"} => ret \in resultType
  /\ (op = "resolveInternetAddrs" /\ pc = "done") => ret \in resultType

\* filterAndTagAddrs has returned, and returned a nil error.
TagDone == op = "filterAndTagAddrs"

TagOK == TagDone /\ ret.err = nil

v4Capable(ip) == ipv4only(ip)

v6Capable(ip) == ipv6only(ip)

\* The input records that pass the filter and are v4- or v6-capable.
retained(filter, ips) ==
  SelectSeq(ips, LAMBDA ip : /\ filter = nil \/ applyFilter(filter, ip)
                             /\ v4Capable(ip) \/ v6Capable(ip))

\* The elements of s at the positions in S, in order.
Restrict(s, S) ==
  LET idx == SelectSeq([x \in 1..Len(s) |-> x], LAMBDA x : x \in S)
  IN [y \in 1..Len(idx) |-> s[idx[y]]]

Min(S) == CHOOSE x \in S : \A y \in S : x <= y

\* C1: every list returned with a nil error by filterAndTagAddrs, and every
\* list built by makeAddrList, has exactly one element tagged single, so
\* getSingle does not panic on it.
C1_ExactlyOneSingle ==
  ((op \in {"filterAndTagAddrs", "makeAddrList"} /\ ret.err = nil)
     \/ (op = "resolveInternetAddrs" /\ pc = "done" /\ ret.err = nil))
    => /\ getSingleCount(ret.addrs) = 1
       /\ ~getSinglePanics(ret.addrs)

C1_Witness ==
  /\ TagOK
  /\ Len(ret.addrs) >= 3
  /\ \E x, y \in 1..Len(ret.addrs) :
       v4Capable(ret.addrs[x].Addr) /\ v6Capable(ret.addrs[y].Addr)

\* C2: in a list returned with a nil error an element is tagged fallback
\* exactly when its family differs from the family of the first element;
\* the first element is no fallback, getPrimaries is not empty, and under
\* the ipv4only or ipv6only filter getFallbacks is empty.
C2_FallbackIsOtherFamily ==
  TagOK =>
    /\ \A x \in 1..Len(ret.addrs) :
         ret.addrs[x].fallback <=>
           \/ v4Capable(ret.addrs[x].Addr) /\ v6Capable(ret.addrs[1].Addr)
           \/ v6Capable(ret.addrs[x].Addr) /\ v4Capable(ret.addrs[1].Addr)
    /\ ~ret.addrs[1].fallback
    /\ getPrimaries(ret.addrs) # <<>>
    /\ args.filter # nil => getFallbacks(ret.addrs) = <<>>

C2_Witness ==
  /\ TagOK
  /\ Len(ret.addrs) >= 3
  /\ v6Capable(ret.addrs[1].Addr)
  /\ ret.addrs[2].fallback
  /\ ~ret.addrs[3].fallback

\* C3: the element tagged single is the first retained v4-capable record
\* when a v4-capable record was retained, and the first retained v6-capable
\* record otherwise, whichever family came first.
C3_SingleIsFirstV4 ==
  TagOK =>
    LET r == retained(args.filter, args.ips)
        v4 == {x \in 1..Len(r) : v4Capable(r[x])}
        v6 == {x \in 1..Len(r) : v6Capable(r[x])}
        p == IF v4 # {} THEN Min(v4) ELSE Min(v6)
    IN /\ Len(ret.addrs) = Len(r)
       /\ ret.addrs[p].Addr = inetaddr(testInetaddr, r[p])
       /\ \A x \in 1..Len(ret.addrs) : ret.addrs[x].single <=> x = p

C3_Witness ==
  /\ TagOK
  /\ \E x \in 1..Len(ret.addrs) :
       /\ x > 1
       /\ ret.addrs[x].single
       /\ ret.addrs[x].fallback
       /\ v4Capable(ret.addrs[x].Addr)

SplitDone == op = "SplitHostPort"

Contains(s, b) == byteIndex(s, b) >= 0

\* The text of hostport before its last ':'.
BeforeLastColon(hostport) == Slice(hostport, 0, last(hostport, ":"))

\* C5: for a host without '[' and ']' and a port without ':', '[' and ']',
\* SplitHostPort(JoinHostPort(host, port)) is (host, port) with a nil error.
C5_RoundTrip ==
  (/\ op = "JoinHostPort"
   /\ ~Contains(args.host, "[") /\ ~Contains(args.host, "]")
   /\ ~Contains(args.port, ":") /\ ~Contains(args.port, "[")
   /\ ~Contains(args.port, "]"))
    => ret.split = splitReturn(args.host, args.port, nil)

C5_Witness ==
  /\ op = "JoinHostPort"
  /\ Contains(args.host, "%")
  /\ ~Contains(args.host, ":")
  /\ args.port # <<>>
  /\ ret.split = splitReturn(args.host, args.port, nil)

\* C6 as stated: an address that does not start with '[' and has a '%'
\* before its last ':' gets the error "missing brackets in address".
C6_Original ==
  (/\ SplitDone
   /\ Contains(args.hostport, ":")
   /\ args.hostport[1] # "["
   /\ Contains(BeforeLastColon(args.hostport), "%"))
    => ret.err = missingBrackets

\* C6 as amended: such an address gets "missing brackets in address" when
\* the text before its last ':' has no ':' of its own, and "too many colons
\* in address" when it has one.
C6_MissingBrackets ==
  (/\ SplitDone
   /\ Contains(args.hostport, ":")
   /\ args.hostport[1] # "["
   /\ Contains(BeforeLastColon(args.hostport), "%"))
    => ret.err = IF Contains(BeforeLastColon(args.hostport), ":")
                 THEN tooManyColons ELSE missingBrackets

C6_Witness ==
  /\ SplitDone
  /\ Contains(args.hostport, ":")
  /\ args.hostport[1] = "a"
  /\ Contains(BeforeLastColon(args.hostport), "%")
  /\ ~Contains(BeforeLastColon(args.hostport), ":")
  /\ ret.err = missingBrackets

\* The character after the first ']' of hostport is there and is no ':'.
RBracketThenOther(hostport) ==
  LET end == byteIndex(hostport, "]")
  IN end >= 0 /\ end + 1 < Len(hostport) /\ hostport[end + 2] # ":"

\* C7 as stated: an address that starts with '[' and has no ']', or has its
\* first ']' followed by a character other than ':', gets the error
\* "missing ']' in address".
C7_Original ==
  (/\ SplitDone
   /\ args.hostport # <<>>
   /\ args.hostport[1] = "["
   /\ ~Contains(args.hostport, "]") \/ RBracketThenOther(args.hostport))
    => ret.err = missingRBracket

\* C7 as amended: an address that starts with '[' gets "missing ']' in
\* address" when it has a ':' and no ']'; it gets "missing port in address"
\* when it has no ':' at all or when its first ']' is followed by a
\* character other than ':'.
C7_MissingRBracket ==
  (/\ SplitDone
   /\ args.hostport # <<>>
   /\ args.hostport[1] = "["
   /\ ~Contains(args.hostport, "]") \/ RBracketThenOther(args.hostport))
    => ret.err = IF Contains(args.hostport, ":") /\ ~Contains(args.hostport, "]")
                 THEN missingRBracket ELSE missingPort

C7_Witness ==
  /\ SplitDone
  /\ Len(args.hostport) >= 3
  /\ args.hostport[1] = "["
  /\ Contains(args.hostport, ":")
  /\ ~Contains(args.hostport, "]")
  /\ ret.err = missingRBracket

\* C10: where SplitHostPort returns an error, the host and the port it
\* returns are both empty.
C10_NoHostWithError ==
  (SplitDone /\ ret.err # nil) => (ret.host = <<>> /\ ret.port = <<>>)

\* The positions in calls of the calls of fn.
CallsOf(fn) == {x \in 1..Len(calls) : calls[x].fn = fn}

\* The call of fn with result res was made before position x of calls.
CalledBefore(fn, res, x) == \E y \in 1..(x - 1) : calls[y] = Called(fn, res)

Transport == {"tcp", "tcp4", "tcp6", "udp", "udp4", "udp6"}

RawIP == {"ip", "ip4", "ip6"}

\* The run found a literal address.
FoundLiteral == \E x \in 1..Len(calls) :
                  calls[x] \in {Called("parseIPv4", "ip"), Called("parseIPv6", "ip")}

\* The run failed on the network name or on parsing the address.
FailedEarly ==
  \/ args.net \notin Transport \cup RawIP
  \/ \E x \in 1..Len(calls) :
       calls[x].fn \in {"SplitHostPort", "parsePort"} /\ calls[x].res # nil

\* C8: a run of resolveInternetAddrs makes at most one lookup, and makes it
\* only with a known network, after SplitHostPort and parsePort succeeded
\* (transport networks) and with a host that is not empty and was found to
\* be no IPv4 and no IPv6 literal; a run that ends on an unknown network, a
\* parse error, an empty host or a literal has made no lookup and no call
\* of filterAndTagAddrs, and for the empty host and the literal its result
\* is one element tagged single and not fallback.
C8_LookupAtMostOnce ==
  op = "resolveInternetAddrs" =>
    /\ Cardinality(CallsOf("lookupIPDeadline")) <= 1
    /\ \A x \in CallsOf("lookupIPDeadline") :
         /\ args.net \in Transport \cup RawIP
         /\ args.net \in Transport =>
              /\ CalledBefore("SplitHostPort", nil, x)
              /\ CalledBefore("parsePort", nil, x)
         /\ host # <<>>
         /\ CalledBefore("parseIPv4", nil, x)
         /\ CalledBefore("parseIPv6", nil, x)
    /\ \A x \in CallsOf("filterAndTagAddrs") :
         CalledBefore("lookupIPDeadline", nil, x)
    /\ (pc = "done" /\ (FailedEarly \/ host = <<>> \/ FoundLiteral)) =>
         /\ CallsOf("lookupIPDeadline") = {}
         /\ CallsOf("filterAndTagAddrs") = {}
         /\ ~FailedEarly =>
              /\ ret.err = nil
              /\ Len(ret.addrs) = 1
              /\ ret.addrs[1].single
              /\ ~ret.addrs[1].fallback

C8_Witness ==
  /\ op = "resolveInternetAddrs"
  /\ pc = "done"
  /\ args.net \in Transport
  /\ Cardinality(CallsOf("lookupIPDeadline")) = 1
  /\ CallsOf("filterAndTagAddrs") # {}
  /\ ret.err = nil
  /\ Len(ret.addrs) >= 2

====
